---- MODULE Spec2Model ----
(***************************************************************************)
(* Batch orchestrator (batch.py: TaskProgress, BatchProcessor) and the     *)
(* cache it uses (cache.py: CacheManager).  Spec is the orchestrator with  *)
(* its cache lookups and stores; CacheSpec is the CacheManager object on   *)
(* its own, with its namespaces, statistics, metadata and clock.  LockSpec *)
(* is the processor's threads statement by statement around its lock, and  *)
(* LiveSpec is Spec with fairly scheduled workers and monitor.             *)
(*                                                                         *)
(* Fractions are kept as integers: a stage fraction f in [0,1] is the      *)
(* percentage 100*f, and a Job's overall progress p in [0,1] is the        *)
(* per-mille value 1000*p, so that 0.2 + f*0.1 becomes 200 + pct*1.        *)
(* Strings that are built by the code (cache keys) are sequences of        *)
(* tokens, so that joining and formatting are computed, not assumed.       *)
(***************************************************************************)
EXTENDS Integers, Sequences, FiniteSets, TLC

\* ------------------------------------------------------------------ bounds
MaxBatches == 2

\* ------------------------------------------------------- input universes
None == "<None>"

\* Identifiers a caller may submit.  urlparse gives scheme and host labels.
YT_A == "https://www.youtube.com/watch?v=a"
YT_B == "https://youtu.be/b"
FTP_C == "ftp://www.youtube.com/c"

UrlLists == { <<>>, <<FTP_C>>, <<YT_A>>, <<YT_A, YT_A>>,
              <<YT_A, FTP_C, YT_B>> }
AllUrls == {YT_A, YT_B, FTP_C}
Models == {"small"}
TargetLangs == {None, "es"}
OutputDirs == {None, "out"}
\* `if not formats` takes the omitted argument (None) and the empty list alike:
\* both are the empty sequence here.
FormatArgs == {<<>>, <<"srt">>}
\* The argument combinations a caller submits: nothing requested; an output
\* directory alone; a target language with formats but no directory; all three.
BatchArgs ==
    {a \in [target_lang : TargetLangs, output_dir : OutputDirs,
            formats : FormatArgs] :
        (a.formats = <<>>) <=> (a.target_lang = None)}
ConcurrencyArgs == {0, 11}
\* fractions the download hook reports while fetch runs
ProgressFractions == {50, 100}
\* fractions convert_to_wav reports while it runs
ConversionFractions == {50}
\* str(e) of what the collaborators raise (audio_utils wraps every failure
\* in a message; tenacity's RetryError prints its last attempt).
ErrorMessages == [fetch |-> "Failed to download audio",
                  transform |-> "Failed to convert audio",
                  analyze |-> "AnalysisError",
                  translate |-> "RetryError",
                  export |-> "ExportError"]
TaskCancelled == "Task cancelled"

\* ------------------------------------------------------------ enumerations
TaskStatus == {"PENDING", "DOWNLOADING", "CONVERTING", "TRANSCRIBING",
               "TRANSLATING", "EXPORTING", "COMPLETED", "FAILED",
               "CANCELLED", "SKIPPED"}
BatchStatus == {"IDLE", "RUNNING", "PAUSED", "COMPLETED", "CANCELLED", "FAILED"}
Terminal == {"COMPLETED", "FAILED", "CANCELLED"}

VARIABLES
    cache_manager,      \* TRUE when the processor was built with a CacheManager
    cm,                 \* the CacheManager object: caches, stats, clock, last call
    lk,                 \* BatchProcessor.lock and the position of every thread
    concurrency,        \* worker pool size
    status,             \* BatchProcessor.status
    cancel_event,       \* BatchProcessor.cancel_event
    tasks,              \* url -> TaskProgress
    futures,            \* url -> "pending" | "result" | "exception"
    work_queue,         \* the executor's queue of submitted, unstarted runs
    pc,                 \* url -> position of the worker inside _process_url ("none": no Job)
    monitor,            \* "none" | "waiting" | "done"
    batch,              \* arguments of the current process_batch call
    batch_no,           \* number of process_batch calls that reset the batch state
    cache,              \* TRANSCRIPTION namespace: cache key -> stored value
    ret,                \* what the last control-surface call returned
    calls,              \* url -> collaborators invoked for the Job
    raised,             \* url -> collaborators that raised for the Job
    observed,           \* url -> a cancel check of the Job saw the switch set
    reported,           \* url -> stages delivered to the progress callback
    completion          \* payloads handed to the completion callback

vars == <<cache_manager, concurrency, cm, lk, status, cancel_event, tasks, futures,
          work_queue, pc, monitor, batch, batch_no, cache, ret, calls, raised,
          observed, reported, completion>>

\* A Job without a result (Python None); results are records.
NoResult == [none |-> TRUE]

\* ------------------------------------------------------------- TaskProgress
TaskProgress(url) ==
    [url |-> url, status |-> "PENDING", progress |-> 0,
     download_progress |-> 0, conversion_progress |-> 0,
     transcription_progress |-> 0, translation_progress |-> 0,
     export_progress |-> 0, result |-> NoResult, error |-> None,
     start_time |-> None, end_time |-> None, temp_files |-> <<>>]

update_progress(t) ==
    CASE t.status = "DOWNLOADING" -> [t EXCEPT !.progress = t.download_progress * 2]
      [] t.status = "CONVERTING" -> [t EXCEPT !.progress = 200 + t.conversion_progress * 1]
      [] t.status = "TRANSCRIBING" -> [t EXCEPT !.progress = 300 + t.transcription_progress * 4]
      [] t.status = "TRANSLATING" -> [t EXCEPT !.progress = 700 + t.translation_progress * 2]
      [] t.status = "EXPORTING" -> [t EXCEPT !.progress = 900 + t.export_progress * 1]
      [] t.status = "COMPLETED" -> [t EXCEPT !.progress = 1000]
      [] OTHER -> t

\* cleanup that forgets to empty the list
cleanup_KeepsFiles(t) == t

cleanup(t) == [t EXCEPT !.temp_files = <<>>]

\* ------------------------------------------------------------- validate_url
urlparse(url) ==
    CASE url = YT_A -> [scheme |-> "https", netloc |-> <<"www", "youtube", "com">>]
      [] url = YT_B -> [scheme |-> "https", netloc |-> <<"youtu", "be">>]
      [] url = FTP_C -> [scheme |-> "ftp", netloc |-> <<"www", "youtube", "com">>]
      [] OTHER -> [scheme |-> "", netloc |-> <<>>]

\* 'needle' in haystack, on host labels
Contains(hay, needle) ==
    \E i \in 1..(Len(hay) - Len(needle) + 1) :
        SubSeq(hay, i, i + Len(needle) - 1) = needle

validate_url(url) ==
    /\ url # ""
    /\ urlparse(url).scheme \in {"http", "https"}
    /\ \/ Contains(urlparse(url).netloc, <<"youtube", "com">>)
       \/ Contains(urlparse(url).netloc, <<"youtu", "be">>)

\* ------------------------------------------------------------ CacheManager
\* Python values that print alike: the integer 1 and the string "1", the
\* value None and the string "None".
Int1 == "<int 1>"

\* f"{v}"
Str(v) ==
    CASE v = None -> "None"
      [] v = Int1 -> "1"
      [] OTHER -> v

\* The characters of a string, for the strings that contain a separator;
\* every other string is one token.
Chars(s) == IF s = "1|b=2" THEN <<"1", "|", "b", "=", "2">> ELSE <<s>>

\* sorted(params.items()): the parameter names in lexicographic order
ParamOrder == <<"a", "b", "model", "target_lang">>

\* "|".join(key_parts) after the primary key: each part is f"{k}={v}"
RECURSIVE KeyParts(_, _)
KeyParts(params, i) ==
    IF i > Len(ParamOrder) THEN <<>>
    ELSE IF ParamOrder[i] \in DOMAIN params
         THEN <<"|">> \o Chars(ParamOrder[i]) \o <<"=">>
              \o Chars(Str(params[ParamOrder[i]]))
              \o KeyParts(params, i + 1)
         ELSE KeyParts(params, i + 1)

\* md5 of the joined string; the digest is taken to be collision free, so the
\* key is the joined string itself.
_get_cache_key(data_key, params) == Chars(data_key) \o KeyParts(params, 1)

\* params built by _process_url before the lookup
LookupParams(model, target_lang) ==
    IF target_lang # None
    THEN [k \in {"model", "target_lang"} |->
             IF k = "model" THEN model ELSE target_lang]
    ELSE [k \in {"model"} |-> model]

\* params built by _process_url for the store
StoreParams(model, target_lang) ==
    [k \in {"model", "target_lang"} |->
        IF k = "model" THEN model ELSE target_lang]

CacheGet(c, key, params) ==
    IF _get_cache_key(key, params) \in DOMAIN c
    THEN c[_get_cache_key(key, params)] ELSE NoResult

CacheStore(c, key, data, params) ==
    [k \in DOMAIN c \cup {_get_cache_key(key, params)} |->
        IF k = _get_cache_key(key, params) THEN data ELSE c[k]]

\* ------------------------------------------------- CacheManager as an object
\* Times are whole seconds of a simulated clock; sizes are counted in rows.
MaxTime == 2
MaxOps == 3
DEFAULT_TTL == 3
size_limit == 2
NoTime == -1

CacheType == {"TRANSCRIPTION", "TRANSLATION", "DOWNLOAD", "METADATA"}

\* The parameter dictionaries callers pass, by name.  "p0" is no parameters.
ParamNames == {"p0", "pNone", "pStrNone", "pTwo", "pInt", "pSep"}
Params(pn) ==
    CASE pn = "pNone" -> [k \in {"target_lang"} |-> None]
      [] pn = "pStrNone" -> [k \in {"target_lang"} |-> "None"]
      [] pn = "pTwo" -> [k \in {"a", "b"} |-> IF k = "a" THEN "1" ELSE "2"]
      [] pn = "pInt" -> [k \in {"a", "b"} |-> IF k = "a" THEN Int1 ELSE "2"]
      [] pn = "pSep" -> [k \in {"a"} |-> "1|b=2"]
      [] OTHER -> <<>>

\* The (namespace, parameters) pairs callers use, all under one primary key.
DataKey == "k"
CacheArgs ==
    ({"TRANSCRIPTION"} \X ParamNames) \cup {<<"DOWNLOAD", "p0">>}
\* an omitted optional integer argument (Python None)
Omitted == -1
TTLArgs == {Omitted, 1}
MaxAgeArgs == {Omitted, 1}
ClearArgs == {None, "TRANSCRIPTION", "DOWNLOAD"}
\* Where the storage layer fails during a call: not at all, in the lookup or
\* write itself (raising, or for a write reporting False), or in the metadata
\* bookkeeping that follows a successful lookup or write.
GetFaults == {"none", "lookup", "bookkeeping"}
StoreFaults == {"none", "raises", "false", "bookkeeping"}
\* the (ttl, fault) pairs of the store calls: a failing write is a default-ttl one
StoreArgs ==
    {x \in TTLArgs \X StoreFaults : x[2] = "none" \/ x[1] = Omitted}

\* A cached value names the parameter set it was stored under and when.
NoValue == [by |-> None, at |-> NoTime]

CacheStats ==
    [hits |-> 0, misses |-> 0, stores |-> 0, deletes |-> 0, errors |-> 0,
     last_access |-> NoTime, last_store |-> NoTime]

\* What a call was given and what it returned.  `ok` is the boolean result
\* (for get: a value was returned), `value` the value passed or returned.
NoCall ==
    [op |-> "none", cache_type |-> None, params |-> None, ttl |-> Omitted,
     fault |-> "none", at |-> NoTime, value |-> NoValue, ok |-> FALSE,
     before |-> 0, removed |-> 0]

\* --- the storage engine (diskcache.FanoutCache, least-recently-used): a
\* namespace is its rows from least to most recently used.
Has(rows, key) == \E i \in 1..Len(rows) : rows[i].key = key
RowOf(rows, key) == rows[CHOOSE i \in 1..Len(rows) : rows[i].key = key]
Without(rows, key) == SelectSeq(rows, LAMBDA r : r.key # key)
Unexpired(rows, now) == SelectSeq(rows, LAMBDA r : r.expire_time > now)

\* an engine that hands out rows whatever their expiry time
cache_present_IgnoresExpiry(rows, key, now) == Has(rows, key)

\* cache.get finds the row: present and not expired
cache_present(rows, key, now) ==
    Has(rows, key) /\ RowOf(rows, key).expire_time > now

\* cache.get on a present row makes it the most recently used
cache_touch(rows, key) == Without(rows, key) \o <<RowOf(rows, key)>>

\* after a write the engine drops expired rows, then the least recently used
\* rows beyond the size limit
cull(rows, now) ==
    LET live == Unexpired(rows, now)
    IN IF Len(live) > size_limit
       THEN SubSeq(live, Len(live) - size_limit + 1, Len(live))
       ELSE live

\* a write whose entry expires at once
cache_set_NoLifetime(rows, key, data, expire, now) ==
    cull(Without(rows, key)
         \o <<[key |-> key, value |-> data, store_time |-> now,
               expire_time |-> now]>>, now)

\* cache.set(cache_key, data, expire=actual_ttl)
cache_set(rows, key, data, expire, now) ==
    cull(Without(rows, key)
         \o <<[key |-> key, value |-> data, store_time |-> now,
               expire_time |-> now + expire]>>,
         now)

\* cache.expire(): removes the expired rows, returns how many
cache_expire(rows, now) == Unexpired(rows, now)

\* ttl if ttl is not None else self.default_ttl
actual_ttl(ttl) == IF ttl # Omitted THEN ttl ELSE DEFAULT_TTL

\* CacheManager(): empty caches, zeroed stats, metadata from _init_metadata
CacheManagerInit ==
    [caches |-> [ct \in CacheType \ {"METADATA"} |-> <<>>],
     metadata |-> [created_at |-> 0, access_count |-> 0,
                   last_cleanup |-> NoTime, last_access |-> NoTime,
                   last_store |-> NoTime],
     stats |-> [ct \in CacheType |-> CacheStats],
     now |-> 0, ops |-> 0, last |-> NoCall]

\* every variable of the batch processor
batch_vars ==
    <<cache_manager, concurrency, status, cancel_event, tasks, futures,
      work_queue, pc, monitor, batch, batch_no, cache, ret, calls, raised,
      observed, reported, completion>>

\* the call record of an operation entered now
Call(op, cache_type, pn, fault) ==
    [NoCall EXCEPT !.op = op, !.cache_type = cache_type, !.params = pn,
                   !.fault = fault, !.at = cm.now]

\* the object after a call: one more operation, the call recorded
Returned(after, call) ==
    [after EXCEPT !.ops = cm.ops + 1, !.last = call]

\* get, lines 161-168 cut short by an exception in _update_metadata: the hit
\* is already counted, the except clause counts an error
get_hit_failed(cache_type, cache_key) ==
    [cm EXCEPT !.caches[cache_type] = cache_touch(@, cache_key),
               !.stats[cache_type].hits = @ + 1,
               !.stats[cache_type].last_access = cm.now,
               !.stats[cache_type].errors = @ + 1]

\* get, lines 161-171
get_hit(cache_type, cache_key) ==
    [cm EXCEPT !.caches[cache_type] = cache_touch(@, cache_key),
               !.stats[cache_type].hits = @ + 1,
               !.stats[cache_type].last_access = cm.now,
               !.metadata.access_count = @ + 1,
               !.metadata.last_access = cm.now]

CacheManager_get(cache_type, key, pn, fault) ==
    LET cache_key == _get_cache_key(key, Params(pn))
        rows == cm.caches[cache_type]
        found == cache_present(rows, cache_key, cm.now)
        call == Call("get", cache_type, pn, fault)
    IN  /\ cm.ops < MaxOps
        /\ fault = "bookkeeping" => found
        /\ cm' =
            CASE fault = "lookup" ->
                    Returned([cm EXCEPT !.stats[cache_type].errors = @ + 1],
                             call)
              [] fault = "bookkeeping" ->
                    Returned(get_hit_failed(cache_type, cache_key), call)
              [] fault = "none" /\ found ->
                    Returned(get_hit(cache_type, cache_key),
                             [call EXCEPT !.ok = TRUE,
                                          !.value = RowOf(rows, cache_key).value])
              [] OTHER ->
                    Returned([cm EXCEPT !.stats[cache_type].misses = @ + 1],
                             call)
        /\ UNCHANGED <<batch_vars, lk>>

\* store, the paths that return False: cache.set raised (error counted),
\* cache.set returned False (nothing counted), or _update_metadata raised
\* after the write (entry written, store and error counted)
store_failed(cache_type, cache_key, data, ttl, fault) ==
    CASE fault = "raises" -> [cm EXCEPT !.stats[cache_type].errors = @ + 1]
      [] fault = "bookkeeping" ->
            [cm EXCEPT !.caches[cache_type] =
                            cache_set(@, cache_key, data, actual_ttl(ttl), cm.now),
                       !.stats[cache_type].stores = @ + 1,
                       !.stats[cache_type].last_store = cm.now,
                       !.stats[cache_type].errors = @ + 1]
      [] OTHER -> cm

CacheManager_store(cache_type, key, data, pn, ttl, fault) ==
    LET cache_key == _get_cache_key(key, Params(pn))
        call == [Call("store", cache_type, pn, fault) EXCEPT
                    !.ttl = ttl, !.value = data]
    IN  /\ cm.ops < MaxOps
        /\ cm' =
            IF fault = "none"
            THEN Returned(
                    [cm EXCEPT !.caches[cache_type] =
                                    cache_set(@, cache_key, data,
                                              actual_ttl(ttl), cm.now),
                               !.stats[cache_type].stores = @ + 1,
                               !.stats[cache_type].last_store = cm.now,
                               !.metadata.last_store = cm.now],
                    [call EXCEPT !.ok = TRUE])
            ELSE Returned(store_failed(cache_type, cache_key, data, ttl, fault),
                          call)
        /\ UNCHANGED <<batch_vars, lk>>

CacheManager_delete(cache_type, key, pn) ==
    LET cache_key == _get_cache_key(key, Params(pn))
        rows == cm.caches[cache_type]
        deleted == Has(rows, cache_key)
        call == Call("delete", cache_type, pn, "none")
    IN  /\ cm.ops < MaxOps
        /\ cm' =
            IF deleted
            THEN Returned([cm EXCEPT !.caches[cache_type] = Without(@, cache_key),
                                     !.stats[cache_type].deletes = @ + 1],
                          [call EXCEPT !.ok = TRUE])
            ELSE Returned(cm, call)
        /\ UNCHANGED <<batch_vars, lk>>

CacheManager_clear(cache_type) ==
    LET cleared == IF cache_type = None THEN CacheType \ {"METADATA"}
                   ELSE {cache_type}
        call == [Call("clear", cache_type, None, "none") EXCEPT !.ok = TRUE]
    IN  /\ cm.ops < MaxOps
        /\ cm' = Returned(
                    [cm EXCEPT
                        !.caches = [ct \in DOMAIN @ |->
                                        IF ct \in cleared THEN <<>> ELSE @[ct]],
                        !.stats = [ct \in DOMAIN @ |->
                                        IF ct \in cleared
                                        THEN [@[ct] EXCEPT !.deletes = @ + 1]
                                        ELSE @[ct]]],
                    call)
        /\ UNCHANGED <<batch_vars, lk>>

\* cleanup, line 305: cache.expire(); max_age_seconds is not used
cleanup_expire(rows, max_age_seconds, now) == cache_expire(rows, now)

CacheManager_cleanup(max_age) ==
    LET max_age_seconds == IF max_age # Omitted THEN max_age ELSE DEFAULT_TTL
        kept == [ct \in DOMAIN cm.caches |->
                    cleanup_expire(cm.caches[ct], max_age_seconds, cm.now)]
        items_before == Len(cm.caches["TRANSCRIPTION"])
                        + Len(cm.caches["TRANSLATION"])
                        + Len(cm.caches["DOWNLOAD"])
        items_removed == items_before
                         - (Len(kept["TRANSCRIPTION"])
                            + Len(kept["TRANSLATION"]) + Len(kept["DOWNLOAD"]))
        call == [Call("cleanup", None, None, "none") EXCEPT
                    !.ttl = max_age, !.before = items_before,
                    !.removed = items_removed, !.ok = TRUE]
    IN  /\ cm.ops < MaxOps
        /\ cm' = Returned([cm EXCEPT !.caches = kept,
                                     !.metadata.last_cleanup = cm.now],
                          call)
        /\ UNCHANGED <<batch_vars, lk>>

\* the clock
Tick ==
    /\ cm.now < MaxTime
    /\ cm' = [cm EXCEPT !.now = @ + 1]
    /\ UNCHANGED <<batch_vars, lk>>

\* ------------------------------------------- BatchProcessor.lock, by thread
\* The methods of BatchProcessor as the statements each thread executes that
\* concern the lock: entering and leaving a `with self.lock` block, a write to
\* a field, a callback, a branch, the start of a collaborator call and its
\* return.  A statement is [line, op, arg, alt]: its line in batch.py, what it
\* does, to what, and the line a branch, a raise or a jump goes to.
MaxControl == 1     \* cancel/pause/resume calls the caller makes
MaxHooks == 1       \* progress hooks a collaborator fires during one call

Caller == "caller"
Monitor == "monitor"
Workers == {YT_A, YT_B}
Threads == {Caller, Monitor} \cup Workers

I(line, op, arg, alt) == [line |-> line, op |-> op, arg |-> arg, alt |-> alt]

\* `with self.lock:` at `line`, the block's statements, the exit after `last`
With(line, body, last) ==
    <<I(line, "acquire", "lock", 0)>> \o body \o <<I(last, "release", "lock", 0)>>

\* _report_progress: the callback is called inside the method's own
\* `with self.lock`
report_progress_steps ==
    With(159, <<I(164, "callback", "on_progress_callback", 0)>>, 180)

\* `if self.cancel_event.is_set(): raise Exception("Task cancelled")`
check_cancel_steps(line) == <<I(line, "branch", "cancel_event", 359)>>

\* the hook the collaborator calls back while it downloads or converts
progress_callback_steps(name) ==
    IF name = "fetch"
    THEN With(260, <<I(261, "write", "download_progress", 0),
                     I(262, "write", "progress", 0)>>
                   \o report_progress_steps, 263)
    ELSE With(277, <<I(278, "write", "conversion_progress", 0),
                     I(279, "write", "progress", 0)>>
                   \o report_progress_steps, 280)

\* a cache-hit path that exports before it leaves the block
cache_hit_steps_ExportInBlock ==
    With(225, <<I(226, "write", "status", 0), I(227, "write", "progress", 0),
                I(228, "write", "result", 0), I(229, "write", "end_time", 0)>>
              \o report_progress_steps
              \o <<I(236, "branch", "formats and output_dir", 230),
                   I(237, "call", "export", 0), I(237, "ret", "export", 382)>>,
         230)
    \o <<I(239, "jump", "return", 382)>>

\* lines 225-244: COMPLETED from the cache, then the export
cache_hit_steps ==
    With(225, <<I(226, "write", "status", 0), I(227, "write", "progress", 0),
                I(228, "write", "result", 0), I(229, "write", "end_time", 0)>>
              \o report_progress_steps, 230)
    \o <<I(236, "branch", "formats and output_dir", 239),
         I(237, "call", "export", 0), I(237, "ret", "export", 382),
         I(239, "jump", "return", 382)>>

\* _process_url
process_url_steps ==
    <<I(206, "write", "start_time", 0),
      I(209, "branch", "cancel_event", 218)>>
    \o With(210, <<I(211, "write", "status", 0), I(212, "write", "progress", 0)>>
                 \o report_progress_steps, 213)
    \o <<I(214, "jump", "return", 382),
         I(218, "branch", "cache_manager", 255),
         I(223, "call", "cache_get", 0), I(223, "ret", "cache_get", 0),
         I(224, "branch", "cached_result", 255)>>
    \o cache_hit_steps
    \o With(255, <<I(256, "write", "status", 0)>> \o report_progress_steps, 257)
    \o check_cancel_steps(265)
    \o <<I(268, "call", "fetch", 0), I(268, "ret", "fetch", 359),
         I(269, "write", "temp_files", 0)>>
    \o With(272, <<I(273, "write", "status", 0)>> \o report_progress_steps, 274)
    \o check_cancel_steps(282)
    \o <<I(285, "call", "transform", 0), I(285, "ret", "transform", 359),
         I(286, "write", "temp_files", 0)>>
    \o With(289, <<I(290, "write", "status", 0),
                   I(291, "write", "transcription_progress", 0),
                   I(292, "write", "progress", 0)>>
                 \o report_progress_steps, 293)
    \o check_cancel_steps(298)
    \o <<I(301, "call", "analyze", 0), I(301, "ret", "analyze", 359),
         I(304, "branch", "target_lang", 323)>>
    \o With(305, <<I(306, "write", "status", 0),
                   I(307, "write", "translation_progress", 0),
                   I(308, "write", "progress", 0)>>
                 \o report_progress_steps, 309)
    \o check_cancel_steps(311)
    \o <<I(314, "call", "translate", 0), I(314, "ret", "translate", 359)>>
    \o With(317, <<I(318, "write", "translation_progress", 0),
                   I(319, "write", "progress", 0)>>
                 \o report_progress_steps, 320)
    \o <<I(323, "branch", "formats and output_dir", 341)>>
    \o With(324, <<I(325, "write", "status", 0),
                   I(326, "write", "export_progress", 0),
                   I(327, "write", "progress", 0)>>
                 \o report_progress_steps, 328)
    \o check_cancel_steps(330)
    \o <<I(333, "call", "export", 0), I(333, "ret", "export", 359)>>
    \o With(335, <<I(336, "write", "export_progress", 0),
                   I(337, "write", "progress", 0)>>
                 \o report_progress_steps, 338)
    \o <<I(341, "branch", "cache_manager", 346),
         I(342, "call", "cache_store", 0), I(342, "ret", "cache_store", 0)>>
    \o With(346, <<I(347, "write", "status", 0), I(348, "write", "progress", 0),
                   I(349, "write", "result", 0), I(350, "write", "end_time", 0)>>
                 \o report_progress_steps, 351)
    \o <<I(353, "jump", "return", 381)>>
    \o <<I(359, "acquire", "lock", 0),
         I(369, "write", "status", 0), I(370, "write", "error", 0),
         I(371, "write", "end_time", 0)>>
    \o report_progress_steps
    \o <<I(372, "release", "lock", 0),
         I(381, "write", "temp_files", 0),
         I(382, "end", "return", 0)>>

\* process_batch, for a batch of the two identifiers
process_batch_steps ==
    <<I(475, "acquire", "lock", 0),
      I(477, "write", "cancel_event", 0), I(478, "write", "tasks", 0),
      I(479, "write", "futures", 0), I(480, "write", "batch_status", 0),
      I(485, "write", "tasks", 0),
      I(487, "branch", "self.tasks", 490),
      I(488, "release", "lock", 0), I(488, "end", "return", 0),
      I(490, "write", "_executor", 0),
      I(494, "submit", YT_A, 0), I(502, "write", "futures", 0),
      I(494, "submit", YT_B, 0), I(502, "write", "futures", 0)>>
    \o report_progress_steps
    \o <<I(505, "release", "lock", 0),
         I(550, "submit", Monitor, 0),
         I(552, "end", "return", 0)>>

\* monitor_progress
monitor_progress_steps ==
    <<I(513, "join", "futures", 0)>>
    \o With(518, <<I(520, "write", "batch_status", 0)>>
                 \o report_progress_steps
                 \o <<I(531, "callback", "on_completion_callback", 0)>>, 537)
    \o <<I(545, "end", "return", 0)>>

\* cancel (565-576), pause (605-615), resume (627-637): the status test, the
\* write and the report inside one block
control_steps(line, fields) ==
    <<I(line, "acquire", "lock", 0),
      I(line + 1, "branch", "self.status", line + 5),
      I(line + 2, "release", "lock", 0), I(line + 2, "end", "return", 0)>>
    \o [i \in 1..Len(fields) |-> I(line + 5, "write", fields[i], 0)]
    \o report_progress_steps
    \o <<I(line + 11, "release", "lock", 0), I(line + 11, "end", "return", 0)>>

Methods == {"cancel", "pause", "resume"}

Program(name) ==
    CASE name = "_process_url" -> process_url_steps
      [] name = "process_batch" -> process_batch_steps
      [] name = "monitor_progress" -> monitor_progress_steps
      [] name = "cancel" -> control_steps(565, <<"cancel_event", "batch_status">>)
      [] name = "pause" -> control_steps(605, <<"batch_status">>)
      [] OTHER -> control_steps(627, <<"batch_status">>)

\* the first statement of `steps` on line `line`
Target(steps, line) ==
    CHOOSE i \in 1..Len(steps) :
        steps[i].line = line /\ \A j \in 1..(i - 1) : steps[j].line # line

LockInit ==
    [owner |-> None, depth |-> 0,
     prog |-> [th \in Threads |->
                  IF th = Caller THEN "process_batch"
                  ELSE IF th = Monitor THEN "monitor_progress"
                  ELSE "_process_url"],
     at |-> [th \in Threads |-> 0],
     in_call |-> [th \in Threads |-> None],
     hook |-> [th \in Threads |-> 0],
     fired |-> [th \in Threads |-> 0],
     control |-> 0]

Active(th) == lk.at[th] > 0

\* the statement thread `th` executes next: of the hook while the collaborator
\* has called it, of the method otherwise
Cur(th) ==
    IF lk.hook[th] > 0
    THEN progress_callback_steps(lk.in_call[th])[lk.hook[th]]
    ELSE Program(lk.prog[th])[lk.at[th]]

Advance(l, th) ==
    IF l.hook[th] > 0
    THEN [l EXCEPT !.hook[th] =
                     IF @ = Len(progress_callback_steps(l.in_call[th]))
                     THEN 0 ELSE @ + 1]
    ELSE [l EXCEPT !.at[th] = @ + 1]

Goto(l, th, line) ==
    [l EXCEPT !.at[th] = Target(Program(l.prog[th]), line)]

lock_frame ==
    <<cache_manager, concurrency, cm, status, cancel_event, tasks, futures,
      work_queue, pc, monitor, batch, batch_no, cache, ret, calls, raised,
      observed, reported, completion>>

Does(th, op) == Active(th) /\ Cur(th).op = op

\* RLock.acquire: free, or held by the same thread
Acquire(th) ==
    /\ Does(th, "acquire")
    /\ lk.owner \in {None, th}
    /\ lk' = Advance([lk EXCEPT !.owner = th, !.depth = @ + 1], th)
    /\ UNCHANGED lock_frame

\* RLock.release
Release(th) ==
    /\ Does(th, "release")
    /\ lk' = Advance([lk EXCEPT !.depth = @ - 1,
                                !.owner = IF lk.depth = 1 THEN None ELSE @], th)
    /\ UNCHANGED lock_frame

Write(th) ==
    /\ Does(th, "write")
    /\ lk' = Advance(lk, th)
    /\ UNCHANGED lock_frame

Callback(th) ==
    /\ Does(th, "callback")
    /\ lk' = Advance(lk, th)
    /\ UNCHANGED lock_frame

Branch(th) ==
    /\ Does(th, "branch")
    /\ \/ lk' = Advance(lk, th)
       \/ lk' = Goto(lk, th, Cur(th).alt)
    /\ UNCHANGED lock_frame

Jump(th) ==
    /\ Does(th, "jump")
    /\ lk' = Goto(lk, th, Cur(th).alt)
    /\ UNCHANGED lock_frame

\* a collaborator call starts
CallStarts(th) ==
    /\ Does(th, "call")
    /\ lk' = Advance([lk EXCEPT !.in_call[th] = Cur(th).arg,
                                !.fired[th] = 0], th)
    /\ UNCHANGED lock_frame

\* download_audio or convert_to_wav calls the progress hook it was given
HookCalled(th) ==
    /\ Does(th, "ret")
    /\ lk.hook[th] = 0
    /\ lk.in_call[th] \in {"fetch", "transform"}
    /\ lk.fired[th] < MaxHooks
    /\ lk' = [lk EXCEPT !.hook[th] = 1, !.fired[th] = @ + 1]
    /\ UNCHANGED lock_frame

\* the collaborator call returns
CallReturns(th) ==
    /\ Does(th, "ret")
    /\ lk.hook[th] = 0
    /\ lk' = Advance([lk EXCEPT !.in_call[th] = None], th)
    /\ UNCHANGED lock_frame

\* the collaborator call raises
CallFails(th) ==
    /\ Does(th, "ret")
    /\ lk.hook[th] = 0
    /\ Cur(th).alt # 0
    /\ lk' = Goto([lk EXCEPT !.in_call[th] = None], th, Cur(th).alt)
    /\ UNCHANGED lock_frame

\* executor.submit / Thread.start: another thread starts its method
Submit(th) ==
    /\ Does(th, "submit")
    /\ lk' = Advance([lk EXCEPT !.at[Cur(th).arg] = 1], th)
    /\ UNCHANGED lock_frame

Ended(th) == Active(th) /\ Cur(th).op = "end"

\* future.result() for every future
Join(th) ==
    /\ Does(th, "join")
    /\ \A w \in Workers : Ended(w)
    /\ lk' = Advance(lk, th)
    /\ UNCHANGED lock_frame

\* the caller calls process_batch
CallProcessBatch ==
    /\ lk.at[Caller] = 0
    /\ lk.prog[Caller] = "process_batch"
    /\ lk' = [lk EXCEPT !.at[Caller] = 1]
    /\ UNCHANGED lock_frame

\* the caller's method returns
Return ==
    /\ Does(Caller, "end")
    /\ lk' = [lk EXCEPT !.at[Caller] = 0, !.prog[Caller] = "returned"]
    /\ UNCHANGED lock_frame

\* the caller calls cancel, pause or resume
CallControl(m) ==
    /\ lk.at[Caller] = 0
    /\ lk.prog[Caller] = "returned"
    /\ lk.control < MaxControl
    /\ lk' = [lk EXCEPT !.at[Caller] = 1, !.prog[Caller] = m,
                        !.control = @ + 1]
    /\ UNCHANGED lock_frame

\* --------------------------------------------------------- BatchProcessor
\* ui.py registers both callbacks right after constructing the processor.
on_progress_callback == TRUE
on_completion_callback == TRUE

\* max(1, min(10, concurrency))
Min(a, b) == IF a < b THEN a ELSE b
Max(a, b) == IF a > b THEN a ELSE b
ClampConcurrency(c) == Max(1, Min(10, c))

\* _report_progress(task_id): the stage carried by the task snapshot
ReportTask(rep, u, t) ==
    IF on_progress_callback THEN [rep EXCEPT ![u] = @ \cup {t.status}] ELSE rep

\* _report_progress(): the snapshot carries every task
ReportBatch(rep, tks) ==
    IF on_progress_callback
    THEN [u \in DOMAIN rep |-> rep[u] \cup {tks[u].status}] ELSE rep

CountStatus(tks, s) == Cardinality({u \in DOMAIN tks : tks[u].status = s})

\* a task table that takes every submitted identifier
ValidInOrder_KeepsInvalid(urls) == urls

\* `for url in urls: if self.validate_url(url): self.tasks[url] = ...`: the
\* keys of the task dictionary, in insertion order.
RECURSIVE ValidInOrder(_)
ValidInOrder(urls) ==
    IF urls = <<>> THEN <<>>
    ELSE LET rest == ValidInOrder(Tail(urls))
         IN IF validate_url(Head(urls))
            THEN <<Head(urls)>> \o SelectSeq(rest, LAMBDA x : x # Head(urls))
            ELSE rest

SeqToSet(s) == {s[i] : i \in DOMAIN s}

NoBatch == [urls |-> <<>>, model |-> None, target_lang |-> None,
            output_dir |-> None, requested_formats |-> <<>>, formats |-> <<>>]

Init ==
    /\ cache_manager \in BOOLEAN
    /\ cm = CacheManagerInit
    /\ lk = LockInit
    /\ concurrency \in {ClampConcurrency(c) : c \in ConcurrencyArgs}
    /\ status = "IDLE"
    /\ cancel_event = FALSE
    /\ tasks = <<>>
    /\ futures = <<>>
    /\ work_queue = <<>>
    /\ pc = [u \in AllUrls |-> "none"]
    /\ monitor = "none"
    /\ batch = NoBatch
    /\ batch_no = 0
    /\ cache = <<>>
    /\ ret = [status |-> "none"]
    /\ calls = <<>>
    /\ raised = <<>>
    /\ observed = <<>>
    /\ reported = <<>>
    /\ completion = <<>>

\* a submit that runs the work in the calling thread
submit_RunsInline(valid) == [u \in valid |-> "result"]

\* `self._executor.submit(self._process_url, url, ...)` for every task: the
\* futures it returns, none of them started.
submit(valid) == [u \in valid |-> "pending"]

\* a reset that keeps the records of the Jobs that are submitted again
reset_tasks_KeepsOld(old, valid) ==
    [u \in valid |-> IF u \in DOMAIN old THEN old[u] ELSE TaskProgress(u)]

\* `self.tasks = {}` and then one TaskProgress(url=url) per valid url
reset_tasks(old, valid) == [u \in valid |-> TaskProgress(u)]

\* process_batch(urls, model, target_lang, output_dir, formats)
process_batch(urls, model, target_lang, output_dir, formats) ==
    /\ monitor # "waiting"
    /\ batch_no < MaxBatches
    /\ IF urls = <<>>
       THEN /\ UNCHANGED batch_no
            /\ ret' = [status |-> "error",
                       message |-> "No URLs provided"]
            /\ UNCHANGED <<cache_manager, concurrency, cm, lk, status, cancel_event,
                           tasks, futures, work_queue, pc, monitor, batch,
                           cache, calls, raised, observed, reported,
                           completion>>
       ELSE LET order == ValidInOrder(urls)
                valid == SeqToSet(order)
                fresh == reset_tasks(tasks, valid)
            IN /\ batch_no' = batch_no + 1
               /\ cancel_event' = FALSE
               /\ tasks' = fresh
               /\ futures' = submit(valid)
               /\ status' = "RUNNING"
               /\ pc' = [u \in AllUrls |-> IF u \in valid THEN "queued" ELSE "none"]
               /\ calls' = [u \in valid |-> {}]
               /\ raised' = [u \in valid |-> {}]
               /\ observed' = [u \in valid |-> FALSE]
               /\ completion' = <<>>
               /\ IF valid = {}
                  THEN /\ ret' = [status |-> "error",
                                  message |-> "No valid YouTube URLs provided"]
                       /\ reported' = <<>>
                       /\ work_queue' = <<>>
                       /\ monitor' = "none"
                       /\ batch' = [NoBatch EXCEPT !.urls = urls]
                  ELSE /\ ret' = [status |-> "started",
                                  tasks |-> order, total |-> Len(order)]
                       /\ reported' = ReportBatch([u \in valid |-> {}], fresh)
                       /\ work_queue' = order
                       /\ monitor' = "waiting"
                       /\ batch' = [urls |-> urls, model |-> model,
                                    target_lang |-> target_lang,
                                    output_dir |-> output_dir,
                                    requested_formats |-> formats,
                                    formats |-> IF formats = <<>>
                                                THEN <<"srt">> ELSE formats]
               /\ UNCHANGED <<cache_manager, concurrency, cm, lk, cache>>

\* a cancel that marks every Job of the batch cancelled itself
cancel_MarksJobs ==
    /\ IF status # "RUNNING"
       THEN /\ ret' = [value |-> FALSE]
            /\ UNCHANGED <<status, cancel_event, reported, tasks>>
       ELSE /\ cancel_event' = TRUE
            /\ status' = "CANCELLED"
            /\ tasks' = [u \in DOMAIN tasks |->
                            [tasks[u] EXCEPT !.status = "CANCELLED"]]
            /\ reported' = ReportBatch(reported, tasks')
            /\ ret' = [value |-> TRUE]
    /\ UNCHANGED <<cache_manager, concurrency, cm, lk, futures, work_queue, pc,
                   monitor, batch, batch_no, cache, calls, raised, observed,
                   completion>>

\* a cancel that also accepts a paused batch
cancel_AlsoWhenPaused ==
    /\ IF status \notin {"RUNNING", "PAUSED"}
       THEN /\ ret' = [value |-> FALSE]
            /\ UNCHANGED <<status, cancel_event, reported>>
       ELSE /\ cancel_event' = TRUE
            /\ status' = "CANCELLED"
            /\ reported' = ReportBatch(reported, tasks)
            /\ ret' = [value |-> TRUE]
    /\ UNCHANGED <<cache_manager, concurrency, cm, lk, tasks, futures, work_queue, pc,
                   monitor, batch, batch_no, cache, calls, raised, observed,
                   completion>>

\* cancel()
cancel ==
    /\ IF status # "RUNNING"
       THEN /\ ret' = [value |-> FALSE]
            /\ UNCHANGED <<status, cancel_event, reported>>
       ELSE /\ cancel_event' = TRUE
            /\ status' = "CANCELLED"
            /\ reported' = ReportBatch(reported, tasks)
            /\ ret' = [value |-> TRUE]
    /\ UNCHANGED <<cache_manager, concurrency, cm, lk, tasks, futures, work_queue, pc,
                   monitor, batch, batch_no, cache, calls, raised, observed,
                   completion>>

\* a pause that also holds the Jobs back through the cancellation switch
pause_SetsSwitch ==
    /\ IF status # "RUNNING"
       THEN /\ ret' = [value |-> FALSE]
            /\ UNCHANGED <<status, reported, cancel_event>>
       ELSE /\ status' = "PAUSED"
            /\ cancel_event' = TRUE
            /\ reported' = ReportBatch(reported, tasks)
            /\ ret' = [value |-> TRUE]
    /\ UNCHANGED <<cache_manager, concurrency, cm, lk, tasks, futures,
                   work_queue, pc, monitor, batch, batch_no, cache, calls,
                   raised, observed, completion>>

\* pause()
pause ==
    /\ IF status # "RUNNING"
       THEN /\ ret' = [value |-> FALSE]
            /\ UNCHANGED <<status, reported>>
       ELSE /\ status' = "PAUSED"
            /\ reported' = ReportBatch(reported, tasks)
            /\ ret' = [value |-> TRUE]
    /\ UNCHANGED <<cache_manager, concurrency, cm, lk, cancel_event, tasks, futures,
                   work_queue, pc, monitor, batch, batch_no, cache, calls,
                   raised, observed, completion>>

\* resume()
resume ==
    /\ IF status # "PAUSED"
       THEN /\ ret' = [value |-> FALSE]
            /\ UNCHANGED <<status, reported>>
       ELSE /\ status' = "RUNNING"
            /\ reported' = ReportBatch(reported, tasks)
            /\ ret' = [value |-> TRUE]
    /\ UNCHANGED <<cache_manager, concurrency, cm, lk, cancel_event, tasks, futures,
                   work_queue, pc, monitor, batch, batch_no, cache, calls,
                   raised, observed, completion>>

\* ------------------------------------------------- _process_url, per Job u
Running(u) == pc[u] \notin {"none", "queued", "done"}

\* an export decided by the formats alone
ExportWanted_FormatsOnly == batch.formats # <<>>

\* `if formats and output_dir`
ExportWanted == batch.formats # <<>> /\ batch.output_dir # None

JobFrame == <<cache_manager, concurrency, cm, lk, status, cancel_event, work_queue,
              monitor, batch, batch_no, ret, completion>>

\* The except clause: the Job becomes CANCELLED when the switch is set at that
\* moment, FAILED otherwise; the finally clause runs afterwards.
Except(u, msg) ==
    LET t == [tasks[u] EXCEPT
                 !.status = IF cancel_event THEN "CANCELLED" ELSE "FAILED",
                 !.error = msg, !.end_time = "set"]
    IN /\ tasks' = [tasks EXCEPT ![u] = t]
       /\ reported' = ReportTask(reported, u, t)
       /\ pc' = [pc EXCEPT ![u] = "finally"]

\* a pool that starts every submitted run at once
Dispatch_NoPoolBound(u) ==
    /\ work_queue # <<>> /\ Head(work_queue) = u
    /\ pc[u] = "queued"
    /\ work_queue' = Tail(work_queue)
    /\ IF cancel_event
       THEN LET t == update_progress([tasks[u] EXCEPT !.start_time = "set",
                                                      !.status = "CANCELLED"])
            IN /\ tasks' = [tasks EXCEPT ![u] = t]
               /\ reported' = ReportTask(reported, u, t)
               /\ observed' = [observed EXCEPT ![u] = TRUE]
               /\ pc' = [pc EXCEPT ![u] = "done"]
               /\ futures' = [futures EXCEPT ![u] = "result"]
       ELSE /\ tasks' = [tasks EXCEPT ![u].start_time = "set"]
            /\ pc' = [pc EXCEPT ![u] = "cache_get"]
            /\ UNCHANGED <<reported, observed, futures>>
    /\ UNCHANGED <<cache_manager, concurrency, cm, lk, status, cancel_event, monitor,
                   batch, batch_no, ret, completion, cache,
                   calls, raised>>

\* a run that does not look at the switch before it starts
Dispatch_IgnoresSwitch(u) ==
    /\ work_queue # <<>> /\ Head(work_queue) = u
    /\ pc[u] = "queued"
    /\ Cardinality({v \in DOMAIN pc : Running(v)}) < concurrency
    /\ work_queue' = Tail(work_queue)
    /\ tasks' = [tasks EXCEPT ![u].start_time = "set"]
    /\ pc' = [pc EXCEPT ![u] = "cache_get"]
    /\ UNCHANGED <<reported, observed, futures>>
    /\ UNCHANGED <<cache_manager, concurrency, cm, lk, status, cancel_event, monitor,
                   batch, batch_no, ret, completion, cache,
                   calls, raised>>

\* A worker of the pool takes the next submitted run and starts _process_url:
\* the check of the switch before anything else.
Dispatch(u) ==
    /\ work_queue # <<>> /\ Head(work_queue) = u
    /\ pc[u] = "queued"
    /\ Cardinality({v \in DOMAIN pc : Running(v)}) < concurrency
    /\ work_queue' = Tail(work_queue)
    /\ IF cancel_event
       THEN LET t == update_progress([tasks[u] EXCEPT !.start_time = "set",
                                                      !.status = "CANCELLED"])
            IN /\ tasks' = [tasks EXCEPT ![u] = t]
               /\ reported' = ReportTask(reported, u, t)
               /\ observed' = [observed EXCEPT ![u] = TRUE]
               /\ pc' = [pc EXCEPT ![u] = "done"]
               /\ futures' = [futures EXCEPT ![u] = "result"]
       ELSE /\ tasks' = [tasks EXCEPT ![u].start_time = "set"]
            /\ pc' = [pc EXCEPT ![u] = "cache_get"]
            /\ UNCHANGED <<reported, observed, futures>>
    /\ UNCHANGED <<cache_manager, concurrency, cm, lk, status, cancel_event, monitor,
                   batch, batch_no, ret, completion, cache,
                   calls, raised>>

\* The cache lookup and, on a hit, the transition to COMPLETED.
CacheLookup(u) ==
    /\ pc[u] = "cache_get"
    /\ IF cache_manager
       THEN LET cached_result ==
                    CacheGet(cache, u, LookupParams(batch.model, batch.target_lang))
            IN /\ calls' = [calls EXCEPT ![u] = @ \cup {"cache_get"}]
               /\ IF cached_result # NoResult
                  THEN LET t == [tasks[u] EXCEPT !.status = "COMPLETED",
                                                 !.progress = 1000,
                                                 !.result = cached_result,
                                                 !.end_time = "set"]
                       IN /\ tasks' = [tasks EXCEPT ![u] = t]
                          /\ reported' = ReportTask(reported, u, t)
                          /\ IF ExportWanted
                             THEN /\ pc' = [pc EXCEPT ![u] = "hit_export"]
                                  /\ UNCHANGED futures
                             ELSE /\ pc' = [pc EXCEPT ![u] = "done"]
                                  /\ futures' = [futures EXCEPT ![u] = "result"]
                  ELSE /\ pc' = [pc EXCEPT ![u] = "downloading"]
                       /\ UNCHANGED <<tasks, reported, futures>>
       ELSE /\ pc' = [pc EXCEPT ![u] = "downloading"]
            /\ UNCHANGED <<tasks, reported, futures, calls>>
    /\ UNCHANGED <<JobFrame, cache, raised, observed>>

\* _export_results on the cache-hit path: outside the try block, so what it
\* raises leaves _process_url through the future.
HitExport(u, ok) ==
    /\ pc[u] = "hit_export"
    /\ calls' = [calls EXCEPT ![u] = @ \cup {"export"}]
    /\ raised' = [raised EXCEPT ![u] = IF ok THEN @ ELSE @ \cup {"export"}]
    /\ futures' = [futures EXCEPT ![u] = IF ok THEN "result" ELSE "exception"]
    /\ pc' = [pc EXCEPT ![u] = "done"]
    /\ UNCHANGED <<JobFrame, cache, tasks, reported, observed>>

\* a stage head that reports the snapshot taken before it sets the stage
EnterStage_ReportsBefore(u, at, stage, next) ==
    /\ pc[u] = at
    /\ tasks' = [tasks EXCEPT ![u].status = stage]
    /\ reported' = ReportTask(reported, u, tasks[u])
    /\ pc' = [pc EXCEPT ![u] = next]
    /\ UNCHANGED <<JobFrame, cache, futures, calls, raised, observed>>

\* `with self.lock: task.status = ...; self._report_progress(url)` at the head
\* of each stage.  DOWNLOADING and CONVERTING do not call update_progress.
EnterStage(u, at, stage, next) ==
    /\ pc[u] = at
    /\ LET t0 == [tasks[u] EXCEPT !.status = stage]
           t == CASE stage = "TRANSCRIBING" ->
                       update_progress([t0 EXCEPT !.transcription_progress = 0])
                  [] stage = "TRANSLATING" ->
                       update_progress([t0 EXCEPT !.translation_progress = 0])
                  [] stage = "EXPORTING" ->
                       update_progress([t0 EXCEPT !.export_progress = 0])
                  [] OTHER -> t0
       IN /\ tasks' = [tasks EXCEPT ![u] = t]
          /\ reported' = ReportTask(reported, u, t)
    /\ pc' = [pc EXCEPT ![u] = next]
    /\ UNCHANGED <<JobFrame, cache, futures, calls, raised, observed>>

\* a check that sees the switch and starts the call all the same
CheckCancel_StartsAnyway(u, at, name, next) ==
    /\ pc[u] = at
    /\ observed' = [observed EXCEPT ![u] = @ \/ cancel_event]
    /\ pc' = [pc EXCEPT ![u] = next]
    /\ calls' = [calls EXCEPT ![u] = @ \cup {name}]
    /\ UNCHANGED <<cache_manager, concurrency, cm, lk, status, cancel_event,
                   work_queue, monitor, batch, batch_no, ret, completion,
                   cache, futures, raised, tasks, reported>>

\* `if self.cancel_event.is_set(): raise Exception("Task cancelled")`, and,
\* when the switch is clear, the start of the stage's collaborator call.
CheckCancel(u, at, name, next) ==
    /\ pc[u] = at
    /\ IF cancel_event
       THEN /\ observed' = [observed EXCEPT ![u] = TRUE]
            /\ Except(u, TaskCancelled)
            /\ UNCHANGED calls
       ELSE /\ pc' = [pc EXCEPT ![u] = next]
            /\ calls' = [calls EXCEPT ![u] = @ \cup {name}]
            /\ UNCHANGED <<observed, tasks, reported>>
    /\ UNCHANGED <<JobFrame, cache, futures, raised>>

\* A collaborator call raises: the except clause.
CallRaises(u, at, name) ==
    /\ pc[u] = at
    /\ raised' = [raised EXCEPT ![u] = @ \cup {name}]
    /\ Except(u, ErrorMessages[name])
    /\ UNCHANGED <<JobFrame, cache, futures, calls, observed>>

\* download_progress_callback / conversion_progress_callback, called by the
\* collaborator while it runs.
ProgressCallback(u, at, field, f) ==
    /\ pc[u] = at
    /\ LET t == update_progress([tasks[u] EXCEPT ![field] = f])
       IN /\ tasks' = [tasks EXCEPT ![u] = t]
          /\ reported' = ReportTask(reported, u, t)
    /\ UNCHANGED <<JobFrame, cache, futures, calls, raised, observed, pc>>

\* download_audio returns: its 'finished' hook reports 1.0, then the path is
\* appended to temp_files.
DownloadReturns(u) ==
    /\ pc[u] = "dl_call"
    /\ LET t0 == update_progress([tasks[u] EXCEPT !.download_progress = 100])
           t == [t0 EXCEPT !.temp_files = Append(@, "audio.m4a")]
       IN /\ tasks' = [tasks EXCEPT ![u] = t]
          /\ reported' = ReportTask(reported, u, t)
    /\ pc' = [pc EXCEPT ![u] = "converting"]
    /\ UNCHANGED <<JobFrame, cache, futures, calls, raised, observed>>

\* convert_to_wav returns: it signals 1.0 before returning, then the path is
\* appended to temp_files.
ConvertReturns(u) ==
    /\ pc[u] = "cv_call"
    /\ LET t0 == update_progress([tasks[u] EXCEPT !.conversion_progress = 100])
           t == [t0 EXCEPT !.temp_files = Append(@, "audio.wav")]
       IN /\ tasks' = [tasks EXCEPT ![u] = t]
          /\ reported' = ReportTask(reported, u, t)
    /\ pc' = [pc EXCEPT ![u] = "transcribing"]
    /\ UNCHANGED <<JobFrame, cache, futures, calls, raised, observed>>

AfterTranslate == IF ExportWanted THEN "exporting" ELSE "store"

\* transcribe returns
TranscribeReturns(u) ==
    /\ pc[u] = "tr_call"
    /\ pc' = [pc EXCEPT ![u] = IF batch.target_lang # None
                               THEN "translating" ELSE AfterTranslate]
    /\ UNCHANGED <<JobFrame, cache, futures, calls, raised, observed, tasks,
                   reported>>

\* The local `result` of _process_url once transcribe (and translate, when a
\* target language is given) has returned.  Two runs do not produce the same
\* object: the run is part of the value.
Result(u) ==
    [text |-> u, model |-> batch.model, run |-> batch_no,
     translated_text |-> batch.target_lang]

\* translate returns
TranslateReturns(u) ==
    /\ pc[u] = "tl_call"
    /\ LET t == update_progress([tasks[u] EXCEPT !.translation_progress = 100])
       IN /\ tasks' = [tasks EXCEPT ![u] = t]
          /\ reported' = ReportTask(reported, u, t)
    /\ pc' = [pc EXCEPT ![u] = AfterTranslate]
    /\ UNCHANGED <<JobFrame, cache, futures, calls, raised, observed>>

\* _export_results returns
ExportReturns(u) ==
    /\ pc[u] = "ex_call"
    /\ LET t == update_progress([tasks[u] EXCEPT !.export_progress = 100])
       IN /\ tasks' = [tasks EXCEPT ![u] = t]
          /\ reported' = ReportTask(reported, u, t)
    /\ pc' = [pc EXCEPT ![u] = "store"]
    /\ UNCHANGED <<JobFrame, cache, futures, calls, raised, observed>>

\* `if self.cache_manager and result: self.cache_manager.store(...)`
StoreResult(u) ==
    /\ pc[u] = "store"
    /\ IF cache_manager
       THEN /\ cache' = CacheStore(cache, u, Result(u),
                                   StoreParams(batch.model, batch.target_lang))
            /\ calls' = [calls EXCEPT ![u] = @ \cup {"cache_store"}]
       ELSE UNCHANGED <<cache, calls>>
    /\ pc' = [pc EXCEPT ![u] = "completing"]
    /\ UNCHANGED <<JobFrame, futures, raised, observed, tasks, reported>>

\* a COMPLETED block that looks at the switch once more after the store
Complete_ChecksSwitch(u) ==
    /\ pc[u] = "completing"
    /\ IF cancel_event
       THEN Except(u, TaskCancelled)
       ELSE LET t == [tasks[u] EXCEPT !.status = "COMPLETED",
                                      !.progress = 1000,
                                      !.result = Result(u),
                                      !.end_time = "set"]
            IN /\ tasks' = [tasks EXCEPT ![u] = t]
               /\ reported' = ReportTask(reported, u, t)
               /\ pc' = [pc EXCEPT ![u] = "finally"]
    /\ UNCHANGED <<JobFrame, cache, futures, calls, raised, observed>>

\* a COMPLETED block that does not publish the result
Complete_ResultMissing(u) ==
    /\ pc[u] = "completing"
    /\ LET t == [tasks[u] EXCEPT !.status = "COMPLETED", !.progress = 1000,
                                 !.end_time = "set"]
       IN /\ tasks' = [tasks EXCEPT ![u] = t]
          /\ reported' = ReportTask(reported, u, t)
    /\ pc' = [pc EXCEPT ![u] = "finally"]
    /\ UNCHANGED <<JobFrame, cache, futures, calls, raised, observed>>

\* COMPLETED
Complete(u) ==
    /\ pc[u] = "completing"
    /\ LET t == [tasks[u] EXCEPT !.status = "COMPLETED", !.progress = 1000,
                                 !.result = Result(u), !.end_time = "set"]
       IN /\ tasks' = [tasks EXCEPT ![u] = t]
          /\ reported' = ReportTask(reported, u, t)
    /\ pc' = [pc EXCEPT ![u] = "finally"]
    /\ UNCHANGED <<JobFrame, cache, futures, calls, raised, observed>>

\* finally: task.cleanup(), and the run returns its dictionary.
Finally(u) ==
    /\ pc[u] = "finally"
    /\ tasks' = [tasks EXCEPT ![u] = cleanup(@)]
    /\ pc' = [pc EXCEPT ![u] = "done"]
    /\ futures' = [futures EXCEPT ![u] = "result"]
    /\ UNCHANGED <<JobFrame, cache, calls, raised, observed, reported>>

\* a monitor that finishes as soon as one future has settled
monitor_progress_FirstFuture ==
    /\ monitor = "waiting"
    /\ \E u \in DOMAIN futures : futures[u] # "pending"
    /\ status' = IF cancel_event THEN "CANCELLED"
                 ELSE IF \E u \in DOMAIN tasks : tasks[u].status = "FAILED"
                      THEN "FAILED" ELSE "COMPLETED"
    /\ reported' = ReportBatch(reported, tasks)
    /\ completion' =
          Append(completion,
                 [status |-> status',
                  tasks |-> [u \in DOMAIN tasks |-> tasks[u].status],
                  completed |-> CountStatus(tasks, "COMPLETED"),
                  failed |-> CountStatus(tasks, "FAILED"),
                  total |-> Cardinality(DOMAIN tasks)])
    /\ monitor' = "done"
    /\ UNCHANGED <<cache_manager, concurrency, cm, lk, cancel_event, tasks, futures,
                   work_queue, pc, batch, batch_no, cache, ret, calls, raised,
                   observed>>

\* monitor_progress: every future has settled; final status, final report and
\* the completion callback, all under the lock.
\* a derivation that looks at failures before the switch
FinalStatus_FailedFirst(tks, cancelled) ==
    IF \E u \in DOMAIN tks : tks[u].status = "FAILED" THEN "FAILED"
    ELSE IF cancelled THEN "CANCELLED"
    ELSE "COMPLETED"

FinalStatus(tks, cancelled) ==
    IF cancelled THEN "CANCELLED"
    ELSE IF \E u \in DOMAIN tks : tks[u].status = "FAILED" THEN "FAILED"
    ELSE "COMPLETED"

\* a monitor that holds the final status back while the batch is paused
monitor_progress_WaitsWhilePaused ==
    /\ monitor = "waiting"
    /\ status # "PAUSED"
    /\ \A u \in DOMAIN futures : futures[u] # "pending"
    /\ status' = FinalStatus(tasks, cancel_event)
    /\ reported' = ReportBatch(reported, tasks)
    /\ completion' =
          Append(completion,
                 [status |-> FinalStatus(tasks, cancel_event),
                  tasks |-> [u \in DOMAIN tasks |-> tasks[u].status],
                  completed |-> CountStatus(tasks, "COMPLETED"),
                  failed |-> CountStatus(tasks, "FAILED"),
                  total |-> Cardinality(DOMAIN tasks)])
    /\ monitor' = "done"
    /\ UNCHANGED <<cache_manager, concurrency, cm, lk, cancel_event, tasks,
                   futures, work_queue, pc, batch, batch_no, cache, ret, calls,
                   raised, observed>>

monitor_progress ==
    /\ monitor = "waiting"
    /\ \A u \in DOMAIN futures : futures[u] # "pending"
    /\ status' = FinalStatus(tasks, cancel_event)
    /\ reported' = ReportBatch(reported, tasks)
    /\ completion' =
          IF on_completion_callback
          THEN Append(completion,
                      [status |-> FinalStatus(tasks, cancel_event),
                       tasks |-> [u \in DOMAIN tasks |-> tasks[u].status],
                       completed |-> CountStatus(tasks, "COMPLETED"),
                       failed |-> CountStatus(tasks, "FAILED"),
                       total |-> Cardinality(DOMAIN tasks)])
          ELSE completion
    /\ monitor' = "done"
    /\ UNCHANGED <<cache_manager, concurrency, cm, lk, cancel_event, tasks, futures,
                   work_queue, pc, batch, batch_no, cache, ret, calls, raised,
                   observed>>

\* ------------------------------------------------------------------- Next
Worker(u) ==
    \/ Dispatch(u)
    \/ CacheLookup(u)
    \/ \E ok \in BOOLEAN : HitExport(u, ok)
    \/ EnterStage(u, "downloading", "DOWNLOADING", "dl_check")
    \/ CheckCancel(u, "dl_check", "fetch", "dl_call")
    \/ \E f \in ProgressFractions :
          ProgressCallback(u, "dl_call", "download_progress", f)
    \/ DownloadReturns(u)
    \/ CallRaises(u, "dl_call", "fetch")
    \/ EnterStage(u, "converting", "CONVERTING", "cv_check")
    \/ CheckCancel(u, "cv_check", "transform", "cv_call")
    \/ \E f \in ConversionFractions :
          ProgressCallback(u, "cv_call", "conversion_progress", f)
    \/ ConvertReturns(u)
    \/ CallRaises(u, "cv_call", "transform")
    \/ EnterStage(u, "transcribing", "TRANSCRIBING", "tr_check")
    \/ CheckCancel(u, "tr_check", "analyze", "tr_call")
    \/ TranscribeReturns(u)
    \/ CallRaises(u, "tr_call", "analyze")
    \/ EnterStage(u, "translating", "TRANSLATING", "tl_check")
    \/ CheckCancel(u, "tl_check", "translate", "tl_call")
    \/ TranslateReturns(u)
    \/ CallRaises(u, "tl_call", "translate")
    \/ EnterStage(u, "exporting", "EXPORTING", "ex_check")
    \/ CheckCancel(u, "ex_check", "export", "ex_call")
    \/ ExportReturns(u)
    \/ CallRaises(u, "ex_call", "export")
    \/ StoreResult(u)
    \/ Complete(u)
    \/ Finally(u)

Next ==
    \/ \E urls \in UrlLists, model \in Models, a \in BatchArgs :
          process_batch(urls, model, a.target_lang, a.output_dir, a.formats)
    \/ cancel
    \/ pause
    \/ resume
    \/ monitor_progress
    \/ \E u \in AllUrls : Worker(u)

Spec == Init /\ [][Next]_vars

\* ------------------------------------------- the CacheManager on its own
\* A caller works on the cache while no batch runs.
CacheInit == Init /\ cache_manager /\ concurrency = 1

CacheNext ==
    \/ \E a \in CacheArgs, fault \in GetFaults :
            CacheManager_get(a[1], DataKey, a[2], fault)
    \/ \E a \in CacheArgs, x \in StoreArgs :
            CacheManager_store(a[1], DataKey, [by |-> a[2], at |-> cm.now],
                               a[2], x[1], x[2])
    \/ \E a \in CacheArgs : CacheManager_delete(a[1], DataKey, a[2])
    \/ \E cache_type \in ClearArgs : CacheManager_clear(cache_type)
    \/ \E max_age \in MaxAgeArgs : CacheManager_cleanup(max_age)
    \/ Tick

CacheSpec == CacheInit /\ [][CacheNext]_vars

\* ================================================================ claims
JobsOf == DOMAIN tasks
BatchDone == monitor = "done" /\ Len(completion) = 1
SameBatch == batch_no' = batch_no

\* C1: per-job isolation.  In a finished batch in which exactly one Job's
\* analyze call raised and the switch was never set, that Job is FAILED with a
\* non-empty error, every sibling none of whose collaborator calls raised is
\* COMPLETED, the batch is FAILED, and the completed count of the completion
\* payload is the number of those successful siblings.
C1_PerJobIsolation ==
    (/\ BatchDone
     /\ ~cancel_event
     /\ Cardinality({u \in JobsOf : "analyze" \in raised[u]}) = 1)
    => LET a == CHOOSE u \in JobsOf : "analyze" \in raised[u]
           good == {v \in JobsOf \ {a} : raised[v] = {}}
       IN /\ tasks[a].status = "FAILED"
          /\ tasks[a].error \notin {None, ""}
          /\ \A v \in good : tasks[v].status = "COMPLETED"
          /\ status = "FAILED"
          /\ completion[1].status = "FAILED"
          /\ completion[1].completed = Cardinality(good)

\* C2: every error raised by a collaborator call of a pipeline run, the export
\* of the cache-hit path included, is caught inside _process_url: the run
\* returns normally and the Job is terminal with its error set, FAILED unless
\* the switch was set.
C2_ErrorsCaughtInRunner ==
    \A u \in JobsOf :
        /\ futures[u] # "exception"
        /\ (pc[u] = "done" /\ raised[u] # {})
              => /\ tasks[u].status \in {"FAILED", "CANCELLED"}
                 /\ tasks[u].error # None
                 /\ (tasks[u].status = "CANCELLED" => cancel_event)

\* C3: once the switch is set while a Job is CONVERTING, the Job's stage never
\* becomes TRANSCRIBING, no progress callback shows it as TRANSCRIBING, and it
\* does not end FAILED.
C3_NoAnalyzingAfterCancel ==
    [][\A u \in JobsOf :
          (SameBatch /\ cancel_event /\ tasks[u].status = "CONVERTING")
             => /\ tasks'[u].status \notin {"TRANSCRIBING", "FAILED"}
                /\ "TRANSCRIBING" \notin reported'[u]]_vars

\* C4: once a cancel check of a Job has seen the switch set, no further
\* collaborator call and no cache store starts for that Job; and the step that
\* sets the switch leaves every worker where it is, a call in progress
\* included, and every Job as it was.
C4_NoNewStageOnceObserved ==
    [][/\ \A u \in JobsOf :
             (SameBatch /\ observed[u]) => calls'[u] = calls[u]
       /\ (cancel_event' /\ ~cancel_event) => pc' = pc /\ tasks' = tasks]_vars

C4_Witness ==
    \E u \in JobsOf :
        /\ observed[u] /\ pc[u] = "done"
        /\ "fetch" \in calls[u] /\ "transform" \notin calls[u]
        /\ tasks[u].download_progress = 100

\* C5: cache short-circuit across batches.  When an earlier batch stored the
\* result of the same identifier, model and target language (no target
\* language included), a Job of the current batch that has consulted the cache
\* is COMPLETED with exactly that stored value, has never been DOWNLOADING,
\* CONVERTING or TRANSCRIBING and has invoked none of fetch, transform, analyze.
C5_CacheShortCircuit ==
    \A u \in JobsOf :
        LET k == _get_cache_key(u, StoreParams(batch.model, batch.target_lang))
        IN (/\ cache_manager
            /\ "cache_get" \in calls[u]
            /\ k \in DOMAIN cache
            /\ cache[k].run < batch_no)
           => /\ tasks[u].status = "COMPLETED"
              /\ tasks[u].result = cache[k]
              /\ calls[u] \cap {"fetch", "transform", "analyze"} = {}
              /\ reported[u] \cap {"DOWNLOADING", "CONVERTING", "TRANSCRIBING"} = {}

\* C6: the completion callback of a started batch is invoked exactly once, not
\* before the monitor has finished waiting, and every Job is terminal at that
\* moment (and stays as the payload showed it).
C6_CompletionExactlyOnce ==
    /\ Len(completion) <= 1
    /\ monitor = "waiting" => completion = <<>>
    /\ monitor = "done" => Len(completion) = 1
    /\ \A i \in DOMAIN completion :
          /\ DOMAIN completion[i].tasks = JobsOf
          /\ \A u \in JobsOf :
                /\ completion[i].tasks[u] \in Terminal
                /\ tasks[u].status = completion[i].tasks[u]

C6_Witness ==
    /\ BatchDone /\ cancel_event
    /\ \E u, v \in JobsOf :
          /\ tasks[u].status = "CANCELLED" /\ tasks[u].temp_files = <<>>
          /\ "fetch" \in calls[u]
          /\ tasks[v].status = "COMPLETED"

\* C7: once the monitor has finished, every Job is terminal and the batch
\* status is CANCELLED when the switch is set, otherwise FAILED when some Job is
\* FAILED, otherwise COMPLETED; no later control call changes it.
C7_FinalBatchStatus ==
    monitor = "done" =>
        /\ \A u \in JobsOf : tasks[u].status \in Terminal
        /\ status = IF cancel_event THEN "CANCELLED"
                    ELSE IF \E u \in JobsOf : tasks[u].status = "FAILED"
                         THEN "FAILED" ELSE "COMPLETED"

\* the switch was set after every Job had completed, one Job had failed
C7_Witness ==
    /\ monitor = "done" /\ cancel_event /\ status = "CANCELLED"
    /\ \E u, v \in JobsOf :
          tasks[u].status = "FAILED" /\ tasks[v].status = "COMPLETED"

\* C8: a cancel() call returns True and sets the switch exactly when the batch
\* status is RUNNING at the call, and then the status is no longer RUNNING (so
\* a second call returns False); in every other status it returns False and
\* leaves the switch, the batch status and all Jobs unchanged.
C8_CancelOnlyWhenRunning ==
    [][cancel =>
          IF status = "RUNNING"
          THEN ret'.value = TRUE /\ cancel_event' /\ status' # "RUNNING"
          ELSE /\ ret'.value = FALSE
               /\ UNCHANGED <<cancel_event, status, tasks, pc>>]_vars

\* cancel() has just returned True on a running batch with a Job in flight
C8_Witness ==
    /\ ret = [value |-> TRUE] /\ cancel_event /\ status = "CANCELLED"
    /\ monitor = "waiting"
    /\ \E u \in JobsOf : tasks[u].status = "DOWNLOADING"

\* C9: when a Job's pipeline run has returned, in whatever terminal state, its
\* temp_files list is empty; so it is for every Job when the completion
\* callback fires.
C9_ScratchReleased ==
    /\ \A u \in JobsOf : pc[u] = "done" => tasks[u].temp_files = <<>>
    /\ Len(completion) > 0 => \A u \in JobsOf : tasks[u].temp_files = <<>>

\* a Job that failed in transform, after fetch had produced a file
C9_Witness ==
    \E u \in JobsOf :
        /\ pc[u] = "done" /\ tasks[u].status = "FAILED"
        /\ "transform" \in raised[u] /\ "fetch" \in calls[u]

\* C10: a Job's overall progress never decreases from one update to the next
\* while its stage is not FAILED or CANCELLED, whatever fractions fetch and
\* transform report.
C10_ProgressMonotone ==
    [][\A u \in JobsOf :
          (SameBatch /\ tasks'[u].status \notin {"FAILED", "CANCELLED"})
             => tasks'[u].progress >= tasks[u].progress]_vars

\* C11: a Job's overall progress is 1.0 exactly when its stage is COMPLETED;
\* it is never 1.0 in EXPORTING or any other stage.
C11_FullProgressIffCompleted ==
    \A u \in JobsOf :
        (tasks[u].progress = 1000) <=> (tasks[u].status = "COMPLETED")

\* C12: a Job's result is set exactly when its stage is COMPLETED, through
\* the full pipeline or through a cache hit.
C12_ResultIffCompleted ==
    \A u \in JobsOf :
        (tasks[u].result # NoResult) <=> (tasks[u].status = "COMPLETED")

\* one Job completed from the cache, its sibling through the whole pipeline
C12_Witness ==
    \E u, v \in JobsOf :
        /\ tasks[u].status = "COMPLETED" /\ tasks[u].result # NoResult
        /\ "cache_get" \in calls[u] /\ "analyze" \notin calls[u]
        /\ tasks[v].status = "COMPLETED" /\ tasks[v].result # NoResult
        /\ "analyze" \in calls[v]

\* C13: a Job's error is set only when its stage is FAILED; a Job in any other
\* stage, CANCELLED included, has no error.
C13_ErrorOnlyWhenFailed ==
    \A u \in JobsOf : tasks[u].error # None => tasks[u].status = "FAILED"

\* C14: the batch a process_batch call on a non-empty list leaves has exactly
\* one Job for each submitted identifier that passes validate_url and none for
\* the others; when the call starts the batch, the returned list holds each
\* valid identifier once and the returned total is their number.
C14_OneJobPerValidIdentifier ==
    batch.urls # <<>> =>
        LET valid == {u \in SeqToSet(batch.urls) : validate_url(u)}
        IN /\ JobsOf = valid
           /\ \A u \in valid : tasks[u].url = u
           /\ ("total" \in DOMAIN ret) =>
                 /\ ret.status = "started"
                 /\ ret.total = Cardinality(valid)
                 /\ Len(ret.tasks) = Cardinality(valid)
                 /\ SeqToSet(ret.tasks) = valid

\* three identifiers, one of them invalid: two Jobs and total = 2
C14_Witness ==
    /\ batch.urls = <<YT_A, FTP_C, YT_B>>
    /\ ret = [status |-> "started", tasks |-> <<YT_A, YT_B>>, total |-> 2]
    /\ JobsOf = {YT_A, YT_B}
    /\ ~validate_url(FTP_C)
    /\ \A u \in JobsOf : tasks[u].status = "PENDING"

\* C15: a process_batch call on a non-empty list in which no identifier passes
\* validation returns an error and starts nothing: no Job, no queued run, no
\* monitor, and the batch status is not left RUNNING.
C15_NothingStartedWithoutValidUrl ==
    (/\ batch.urls # <<>>
     /\ \A i \in DOMAIN batch.urls : ~validate_url(batch.urls[i]))
    => /\ JobsOf = {}
       /\ work_queue = <<>>
       /\ monitor = "none"
       /\ ("message" \in DOMAIN ret => ret.status = "error")
       /\ status # "RUNNING"

\* C16: the process_batch call that starts a batch of N valid identifiers
\* returns {started, total N} with no Job terminal and every submitted run
\* unsettled, whatever the pool size; the completion is awaited by the monitor
\* alone, which finishes only when every run has settled.
C16_ReturnsWithoutWaiting ==
    [][/\ (~SameBatch /\ JobsOf' # {}) =>
             /\ ret'.status = "started"
             /\ ret'.total = Cardinality(JobsOf')
             /\ \A u \in JobsOf' :
                   tasks'[u].status \notin Terminal /\ futures'[u] = "pending"
             /\ monitor' = "waiting"
             /\ completion' = <<>>
       /\ (SameBatch /\ (completion' # completion \/ monitor' # monitor)) =>
             /\ monitor = "waiting" /\ monitor' = "done"
             /\ \A u \in JobsOf : futures[u] # "pending"
             /\ UNCHANGED <<ret, tasks, pc>>]_vars

\* the value returned for two Jobs still stands while, with a pool of one
\* worker, the first Job is in a stage and the second has not been dispatched
C16_Witness ==
    /\ ret = [status |-> "started", tasks |-> <<YT_A, YT_B>>, total |-> 2]
    /\ concurrency = 1 /\ monitor = "waiting"
    /\ JobsOf = {YT_A, YT_B}
    /\ tasks[YT_A].status = "TRANSCRIBING" /\ pc[YT_A] = "tr_call"
    /\ tasks[YT_B].status = "PENDING"

\* C17: a Job that is dispatched while the switch is set goes from PENDING
\* straight to CANCELLED and its run returns: the cache is not consulted, no
\* collaborator is invoked, and no running stage is ever reported for it.
C17_CancelledAtDispatch ==
    [][\A u \in JobsOf :
          (SameBatch /\ cancel_event /\ pc[u] = "queued" /\ pc'[u] # "queued")
             => /\ tasks[u].status = "PENDING"
                /\ tasks'[u].status = "CANCELLED"
                /\ pc'[u] = "done" /\ futures'[u] = "result"
                /\ calls'[u] = {} /\ cache' = cache
                /\ reported'[u] \subseteq {"PENDING", "CANCELLED"}]_vars

\* with one worker, the switch was set while the first Job was in fetch; the
\* second Job was then dispatched and cancelled without any call
C17_Witness ==
    /\ cancel_event /\ concurrency = 1
    /\ JobsOf = {YT_A, YT_B}
    /\ tasks[YT_B].status = "CANCELLED" /\ pc[YT_B] = "done"
    /\ calls[YT_B] = {} /\ reported[YT_B] = {"PENDING", "CANCELLED"}
    /\ tasks[YT_B].error = None
    /\ "fetch" \in calls[YT_A] /\ tasks[YT_A].status = "CANCELLED"

StageCall ==
    [DOWNLOADING |-> "fetch", CONVERTING |-> "transform",
     TRANSCRIBING |-> "analyze", TRANSLATING |-> "translate",
     EXPORTING |-> "export"]
StageCallAt ==
    [DOWNLOADING |-> "dl_call", CONVERTING |-> "cv_call",
     TRANSCRIBING |-> "tr_call", TRANSLATING |-> "tl_call",
     EXPORTING |-> "ex_call"]
StageNext ==
    [DOWNLOADING |-> {"CONVERTING"}, CONVERTING |-> {"TRANSCRIBING"},
     TRANSCRIBING |-> {"TRANSLATING", "EXPORTING", "COMPLETED"},
     TRANSLATING |-> {"EXPORTING", "COMPLETED"},
     EXPORTING |-> {"COMPLETED"}]
RunningStages == DOMAIN StageCall
ExportInProgress(u) == pc[u] \in {"ex_call", "hit_export"}

\* C19: a Job's stage moves only along PENDING, DOWNLOADING, CONVERTING,
\* TRANSCRIBING, [TRANSLATING], [EXPORTING], COMPLETED (a cache hit skipping
\* the first three running stages), or from a non-terminal stage to FAILED or
\* CANCELLED; it leaves a running stage for a later one only when that stage's
\* collaborator call was made, did not raise and has returned; and a
\* collaborator call is in progress only in its own stage.
C19_StageOrder ==
    [][\A u \in JobsOf :
          SameBatch =>
             LET a == tasks[u].status
                 b == tasks'[u].status
             IN /\ (a # b) =>
                      \/ a = "PENDING" /\ b = "DOWNLOADING"
                      \/ /\ a = "PENDING" /\ "cache_get" \in calls'[u]
                         /\ b = IF ExportWanted THEN "EXPORTING" ELSE "COMPLETED"
                      \/ a \notin Terminal /\ b \in {"FAILED", "CANCELLED"}
                      \/ /\ a \in RunningStages /\ b \in StageNext[a]
                         /\ StageCall[a] \in calls[u] \ raised[u]
                         /\ pc[u] # StageCallAt[a]
                /\ \A st \in RunningStages :
                      pc'[u] = StageCallAt[st] => b = st
                /\ ExportInProgress(u)' => b = "EXPORTING"]_vars

\* C20, as claimed: a Job is reported TRANSLATING or has translate invoked
\* only if a target language was requested, and is reported EXPORTING or has
\* export invoked only if both output formats and an output directory were
\* requested; a Job that completed through the pipeline went through each of
\* the two stages that was requested.
C20_OptionalStagesAsRequested ==
    \A u \in JobsOf :
        LET translateAsked == batch.target_lang # None
            exportAsked == /\ batch.requested_formats # <<>>
                           /\ batch.output_dir # None
        IN /\ ("TRANSLATING" \in reported[u] \/ "translate" \in calls[u])
                 => translateAsked
           /\ ("EXPORTING" \in reported[u] \/ "export" \in calls[u])
                 => exportAsked
           /\ (tasks[u].status = "COMPLETED" /\ "analyze" \in calls[u]) =>
                 /\ translateAsked =>
                       "TRANSLATING" \in reported[u] /\ "translate" \in calls[u]
                 /\ exportAsked =>
                       "EXPORTING" \in reported[u] /\ "export" \in calls[u]

\* C20, amended: the same with the export decided by the output directory
\* alone, the formats being defaulted to srt when none are given.
C20_ExportFollowsOutputDir ==
    \A u \in JobsOf :
        LET translateAsked == batch.target_lang # None
            exportAsked == batch.output_dir # None
        IN /\ ("TRANSLATING" \in reported[u] \/ "translate" \in calls[u])
                 => translateAsked
           /\ ("EXPORTING" \in reported[u] \/ "export" \in calls[u])
                 => exportAsked
           /\ (tasks[u].status = "COMPLETED" /\ "analyze" \in calls[u]) =>
                 /\ translateAsked <=>
                       ("TRANSLATING" \in reported[u] /\ "translate" \in calls[u])
                 /\ exportAsked <=>
                       ("EXPORTING" \in reported[u] /\ "export" \in calls[u])
           /\ batch.requested_formats = <<>> => batch.formats = <<"srt">>

\* a Job completed through the pipeline with an output directory and no
\* formats given: exported as srt, not translated
C20_Witness ==
    /\ batch.output_dir = "out" /\ batch.requested_formats = <<>>
    /\ batch.target_lang = None
    /\ \E u \in JobsOf :
          /\ tasks[u].status = "COMPLETED" /\ "analyze" \in calls[u]
          /\ "export" \in calls[u] /\ "EXPORTING" \in reported[u]
          /\ "translate" \notin calls[u] /\ "TRANSLATING" \notin reported[u]

\* C21: for a Job served from the cache in a batch that was given formats and
\* an output directory, the export runs as the Job's EXPORTING stage: the stage
\* is EXPORTING while the export is in progress and has been reported as such
\* once the run has returned; fetch, transform and analyze are not invoked.
C21_CacheHitExportsAsStage ==
    \A u \in JobsOf :
        (/\ "cache_get" \in calls[u] /\ "analyze" \notin calls[u]
         /\ tasks[u].result # NoResult
         /\ batch.requested_formats # <<>> /\ batch.output_dir # None)
        => /\ calls[u] \cap {"fetch", "transform", "analyze"} = {}
           /\ pc[u] = "hit_export" => tasks[u].status = "EXPORTING"
           /\ pc[u] = "done" =>
                 "export" \in calls[u] /\ "EXPORTING" \in reported[u]

\* C22: cache round trip.  A store that returned True, followed by a get of the
\* same namespace, key and parameters before the ttl has elapsed, with no other
\* call in between and no storage failure in the get, returns the stored value.
C22_RoundTrip ==
    [][\A a \in CacheArgs :
          (/\ cm.last.op = "store" /\ cm.last.ok
           /\ cm.last.cache_type = a[1] /\ cm.last.params = a[2]
           /\ cm.now < cm.last.at + actual_ttl(cm.last.ttl)
           /\ CacheManager_get(a[1], DataKey, a[2], "none"))
          => cm'.last.ok /\ cm'.last.value = cm.last.value]_vars

\* a store at time 0 with the default ttl, then a get at time 2 that returned
\* the value
C22_Witness ==
    /\ cm.ops = 2 /\ cm.last.op = "get" /\ cm.last.ok
    /\ cm.last.cache_type = "TRANSCRIPTION" /\ cm.last.params = "pNone"
    /\ cm.stats["TRANSCRIPTION"].stores = 1
    /\ cm.last.value = [by |-> "pNone", at |-> 0]
    /\ cm.now = 2

\* C23: a get of an entry whose ttl has elapsed is a miss like any other: no
\* value is returned, the miss counter goes up by one and nothing else of the
\* statistics, the metadata or the stored rows changes; the entry is not
\* readable afterwards either, and only a store makes a key readable again.
C23_ExpiredIsMiss ==
    [][\A a \in CacheArgs :
          LET key == _get_cache_key(DataKey, Params(a[2]))
              rows == cm.caches[a[1]]
          IN  /\ (/\ Has(rows, key) /\ RowOf(rows, key).expire_time <= cm.now
                  /\ CacheManager_get(a[1], DataKey, a[2], "none"))
                 => /\ ~cm'.last.ok /\ cm'.last.value = NoValue
                    /\ cm'.stats =
                          [cm.stats EXCEPT ![a[1]].misses = @ + 1]
                    /\ cm'.metadata = cm.metadata
                    /\ cm'.caches = cm.caches
                    /\ ~cache_present(cm'.caches[a[1]], key, cm'.now)
              /\ (/\ ~cache_present(rows, key, cm.now)
                  /\ cache_present(cm'.caches[a[1]], key, cm'.now))
                 => /\ cm'.last.op = "store" /\ cm'.last.cache_type = a[1]
                    /\ _get_cache_key(DataKey, Params(cm'.last.params)) = key
      ]_vars

\* an entry stored with ttl 1, then read twice after the ttl: both reads miss
\* and the expired row is still in the engine
C23_Witness ==
    LET key == _get_cache_key(DataKey, Params("pNone"))
        rows == cm.caches["TRANSCRIPTION"]
    IN  /\ cm.ops = 3 /\ cm.last.op = "get" /\ ~cm.last.ok
        /\ cm.last.cache_type = "TRANSCRIPTION" /\ cm.last.params = "pNone"
        /\ cm.stats["TRANSCRIPTION"].stores = 1
        /\ cm.stats["TRANSCRIPTION"].misses = 2
        /\ Has(rows, key) /\ RowOf(rows, key).expire_time <= cm.now

\* C24: different parameter sets under one primary key do not collide: a get
\* that returns a value returns one that was stored under its own parameter
\* set, never one stored under a different set.
C24_OwnValueOnly ==
    (cm.last.op = "get" /\ cm.last.ok)
    => Params(cm.last.value.by) = Params(cm.last.params)

\* C25: a get during which the storage layer fails, in the lookup or in the
\* bookkeeping after it, returns no value, adds one to the namespace's error
\* counter and is not counted as a hit.
C25_FailedGetIsErrorOnly ==
    [][\A a \in CacheArgs, fault \in GetFaults \ {"none"} :
          CacheManager_get(a[1], DataKey, a[2], fault)
          => /\ ~cm'.last.ok /\ cm'.last.value = NoValue
             /\ cm'.stats[a[1]].errors = cm.stats[a[1]].errors + 1
             /\ cm'.stats[a[1]].hits = cm.stats[a[1]].hits]_vars

\* C26: a store that returns False has added one to the namespace's error
\* counter and has not left its value readable: what a get finds under the
\* key afterwards, if anything, is the row that was there before the call.
C26_FailedStoreCountedAndUnwritten ==
    [][\A a \in CacheArgs, x \in StoreArgs :
          LET data == [by |-> a[2], at |-> cm.now]
              key == _get_cache_key(DataKey, Params(a[2]))
          IN  (/\ CacheManager_store(a[1], DataKey, data, a[2], x[1], x[2])
               /\ ~cm'.last.ok)
              => /\ cm'.stats[a[1]].errors = cm.stats[a[1]].errors + 1
                 /\ cache_present(cm'.caches[a[1]], key, cm'.now)
                    => /\ Has(cm.caches[a[1]], key)
                       /\ RowOf(cm'.caches[a[1]], key)
                            = RowOf(cm.caches[a[1]], key)]_vars

\* C27: a get, store or delete on one namespace leaves every other namespace
\* as it was: the rows of the other data namespaces and the entries of the
\* METADATA namespace are the same before and after the call.
C27_NamespacesIndependent ==
    [][(cm'.ops = cm.ops + 1 /\ cm'.last.op \in {"get", "store", "delete"})
       => /\ \A ct \in DOMAIN cm.caches \ {cm'.last.cache_type} :
                cm'.caches[ct] = cm.caches[ct]
          /\ cm'.metadata = cm.metadata]_vars

\* C28: cleanup(max_age) leaves no entry older than max_age seconds (the default
\* ttl when max_age is omitted) in the data namespaces, leaves in place every
\* entry that is no older than max_age and not expired, and returns the number
\* of entries before the call and the number removed, the latter no greater.
C28_CleanupByAge ==
    [][\A max_age \in MaxAgeArgs :
          LET limit == IF max_age # Omitted THEN max_age ELSE DEFAULT_TTL
              Count(c) == Len(c["TRANSCRIPTION"]) + Len(c["TRANSLATION"])
                          + Len(c["DOWNLOAD"])
          IN  CacheManager_cleanup(max_age)
              => /\ \A ct \in DOMAIN cm.caches :
                       /\ \A i \in 1..Len(cm'.caches[ct]) :
                             cm.now - cm'.caches[ct][i].store_time <= limit
                       /\ \A i \in 1..Len(cm.caches[ct]) :
                             (/\ cm.now - cm.caches[ct][i].store_time <= limit
                              /\ cm.caches[ct][i].expire_time > cm.now)
                             => Has(cm'.caches[ct], cm.caches[ct][i].key)
                 /\ cm'.last.before = Count(cm.caches)
                 /\ cm'.last.removed = Count(cm.caches) - Count(cm'.caches)
                 /\ cm'.last.removed <= cm'.last.before]_vars

\* C29: pause() returns True exactly when the batch is RUNNING and then sets it
\* PAUSED; resume() returns True exactly when it is PAUSED and then sets it
\* RUNNING; a call that returns False changes nothing.  Neither call changes a
\* Job or the cancellation switch, and while the batch is PAUSED every Job
\* that is in flight can take its next step.
C29_PauseResumeToggleOnly ==
    [][/\ pause => /\ ret'.value = (status = "RUNNING")
                   /\ status' = IF status = "RUNNING" THEN "PAUSED" ELSE status
       /\ resume => /\ ret'.value = (status = "PAUSED")
                    /\ status' = IF status = "PAUSED" THEN "RUNNING" ELSE status
       /\ (pause \/ resume)
          => /\ UNCHANGED <<tasks, cancel_event, futures, work_queue, pc,
                            monitor, batch, cache, calls, raised, observed,
                            completion>>
             /\ ~ret'.value => UNCHANGED <<status, reported>>
       /\ status = "PAUSED"
          => \A u \in JobsOf : Running(u) => ENABLED Worker(u)]_vars

\* the batch is PAUSED after a pause() that returned True, one Job is COMPLETED
\* and another is inside its analyze call
C29_Witness ==
    /\ status = "PAUSED" /\ ret = [value |-> TRUE]
    /\ JobsOf = {YT_A, YT_B}
    /\ tasks[YT_A].status = "COMPLETED"
    /\ pc[YT_B] = "tr_call" /\ tasks[YT_B].status = "TRANSCRIBING"

\* C30: a process_batch call that returns started after the previous batch has
\* finished replaces the batch state: the task table holds exactly the valid
\* identifiers of the new call, each a fresh PENDING Job with progress 0, no
\* result and no error, there is one future per Job, the switch is clear and
\* the batch is RUNNING.
C30_PriorBatchDiscarded ==
    [][(batch_no' = batch_no + 1 /\ monitor = "done"
        /\ ret'.status = "started")
       => /\ DOMAIN tasks' = SeqToSet(ValidInOrder(batch'.urls))
          /\ DOMAIN futures' = DOMAIN tasks'
          /\ \A u \in DOMAIN tasks' :
                /\ tasks'[u].status = "PENDING" /\ tasks'[u].progress = 0
                /\ tasks'[u].result = NoResult /\ tasks'[u].error = None
                /\ tasks'[u].start_time = None /\ tasks'[u].end_time = None
          /\ ~cancel_event'
          /\ status' = "RUNNING"
          /\ completion' = <<>>]_vars

\* the second batch has just started with the single Job YT_A, while the cache
\* still holds what the first batch stored for its Jobs YT_A and YT_B
C30_Witness ==
    /\ batch_no = 2 /\ monitor = "waiting" /\ status = "RUNNING"
    /\ JobsOf = {YT_A} /\ pc[YT_A] = "queued"
    /\ tasks[YT_A].status = "PENDING"
    /\ \E k \in DOMAIN cache : k[1] = YT_B
    /\ \E k \in DOMAIN cache : k[1] = YT_A

\* C34: every Job in a terminal state has its end time set, so that its
\* elapsed time is end_time - start_time and no longer depends on the clock.
C34_TerminalHasEndTime ==
    \A u \in JobsOf :
        tasks[u].status \in Terminal => tasks[u].end_time # None

\* C35: terminal Job states are absorbing within a batch: no step of any
\* worker, of the monitor or of cancel, pause or resume changes the stage, the
\* result or the error of a Job that is COMPLETED, FAILED or CANCELLED.
C35_TerminalAbsorbing ==
    [][SameBatch
       => \A u \in JobsOf :
             tasks[u].status \in Terminal
             => /\ tasks'[u].status = tasks[u].status
                /\ tasks'[u].result = tasks[u].result
                /\ tasks'[u].error = tasks[u].error]_vars

\* a finished batch in which the first Job completed and, after a cancel, the
\* second Job ended CANCELLED: the first Job is still COMPLETED with its result
C35_Witness ==
    /\ monitor = "done" /\ cancel_event /\ status = "CANCELLED"
    /\ JobsOf = {YT_A, YT_B}
    /\ tasks[YT_A].status = "COMPLETED" /\ tasks[YT_A].result # NoResult
    /\ tasks[YT_B].status = "CANCELLED" /\ "fetch" \in calls[YT_B]

\* C36: a Job becomes CANCELLED only while the switch is set, and a Job whose
\* collaborator call raises while the switch is set becomes CANCELLED, never
\* FAILED, so that the failed count of the completion payload leaves it out.
C36_RaiseUnderSwitchIsCancelled ==
    [][SameBatch
       => /\ \A u \in JobsOf :
                /\ (tasks[u].status # "CANCELLED"
                    /\ tasks'[u].status = "CANCELLED") => cancel_event
                /\ (raised'[u] # raised[u] /\ cancel_event)
                   => tasks'[u].status = "CANCELLED"
          /\ BatchDone
             => completion[1].failed = CountStatus(tasks, "FAILED")]_vars


\* C39: every get adds one to exactly one of its namespace's hits, misses and
\* errors counters and returns a value exactly when it was hits; every store
\* adds one to stores exactly when it returns True.
C39_OneCounterPerCall ==
    [][(cm'.ops = cm.ops + 1 /\ cm'.last.op \in {"get", "store"})
       => LET ct == cm'.last.cache_type
              d(f) == cm'.stats[ct][f] - cm.stats[ct][f]
          IN  IF cm'.last.op = "get"
              THEN /\ {d("hits"), d("misses"), d("errors")} \subseteq {0, 1}
                   /\ d("hits") + d("misses") + d("errors") = 1
                   /\ cm'.last.ok <=> d("hits") = 1
              ELSE /\ d("stores") \in {0, 1}
                   /\ cm'.last.ok <=> d("stores") = 1]_vars


\* C38: while the batch status is COMPLETED or FAILED every Job of the batch
\* is terminal; a cancel that returns True has set the batch status CANCELLED,
\* and that status may hold while Jobs are still in a running stage.
C38_FinalStatusMeansAllTerminal ==
    /\ [](status \in {"COMPLETED", "FAILED"}
          => \A u \in JobsOf : tasks[u].status \in Terminal)
    /\ [][(cancel /\ ret'.value = TRUE)
          => (status' = "CANCELLED" /\ tasks' = tasks)]_vars

C38_Witness ==
    /\ status = "CANCELLED" /\ cancel_event /\ monitor = "waiting"
    /\ ret = [value |-> TRUE]
    /\ \E u \in JobsOf :
          Running(u) /\ tasks[u].status \notin Terminal \cup {"PENDING"}


\* C37: a Job's result is stored into the cache only after every requested
\* stage of the Job, translate and export included, has returned without
\* raising; a Job that has stored is never FAILED or CANCELLED, and it is
\* COMPLETED when its run has ended.
C37_StoreAfterAllStages ==
    [][SameBatch
       => \A u \in JobsOf :
             /\ ("cache_store" \in calls'[u] /\ "cache_store" \notin calls[u])
                => /\ raised[u] = {}
                   /\ {"fetch", "transform", "analyze"} \subseteq calls[u]
                   /\ "translate" \in calls[u] <=> batch.target_lang # None
                   /\ "export" \in calls[u] <=> ExportWanted
                   /\ tasks[u].status \notin Terminal
             /\ "cache_store" \in calls[u]
                => tasks'[u].status \notin {"FAILED", "CANCELLED"}
             /\ ("cache_store" \in calls'[u] /\ pc'[u] = "done")
                => tasks'[u].status = "COMPLETED"]_vars

C37_Witness ==
    \E u \in JobsOf :
        /\ pc[u] = "done" /\ tasks[u].status = "COMPLETED"
        /\ {"translate", "export", "cache_store"} \subseteq calls[u]
        /\ CacheGet(cache, u, LookupParams(batch.model, batch.target_lang))
             = tasks[u].result


\* C32: the progress callbacks of a Job follow its stage transitions: every
\* step that changes the Job's stage delivers the new stage in that same step,
\* as a stage not delivered before, and every callback delivers the stage the
\* Job is in at that moment, never an older one, whatever the other Jobs do.
C32_CallbacksFollowStages ==
    [][SameBatch
       => \A u \in JobsOf :
             /\ tasks'[u].status # tasks[u].status
                => /\ tasks'[u].status \notin reported[u]
                   /\ reported'[u] = reported[u] \cup {tasks'[u].status}
             /\ reported'[u] # reported[u]
                => reported'[u] = reported[u] \cup {tasks'[u].status}
             /\ tasks[u].status \in reported[u]]_vars

C32_Witness ==
    /\ JobsOf = {YT_A, YT_B}
    /\ tasks[YT_A].status = "TRANSCRIBING"
    /\ reported[YT_A] = {"PENDING", "DOWNLOADING", "CONVERTING", "TRANSCRIBING"}
    /\ tasks[YT_B].status = "CONVERTING"
    /\ reported[YT_B] = {"PENDING", "DOWNLOADING", "CONVERTING"}


\* ------------------------------------------------ the lock, thread by thread
\* a pool that runs both Jobs at once
LockStart == Init /\ cache_manager /\ concurrency = 10

LockNext ==
    \/ CallProcessBatch
    \/ Return
    \/ \E m \in Methods : CallControl(m)
    \/ \E th \in Threads :
          \/ Acquire(th)
          \/ Release(th)
          \/ Write(th)
          \/ Callback(th)
          \/ Branch(th)
          \/ Jump(th)
          \/ CallStarts(th)
          \/ HookCalled(th)
          \/ CallReturns(th)
          \/ CallFails(th)
          \/ Submit(th)
          \/ Join(th)

LockSpec == LockStart /\ [][LockNext]_vars


\* the fields the lock protects: the job map, a Job's stage, progress, result
\* and error, and the batch status
Protected ==
    {"tasks", "status", "progress", "download_progress", "conversion_progress",
     "transcription_progress", "translation_progress", "export_progress",
     "result", "error", "batch_status"}

WritesProtected(th) ==
    Active(th) /\ Cur(th).op = "write" /\ Cur(th).arg \in Protected

\* C33: every write to the job map, to a Job's stage, progress, result or
\* error and to the batch status is made by a thread that holds the lock, and
\* no thread holds the lock while it is inside a collaborator call.
C33_LockDiscipline ==
    \A th \in Threads :
        /\ WritesProtected(th) => lk.owner = th
        /\ lk.in_call[th] # None => lk.owner # th

\* C33, amended: every such write is made by a thread that holds the lock; no
\* thread holds the lock when it starts a collaborator call or while the
\* collaborator's own code runs; the lock is taken during a call only by the
\* progress hook that fetch and transform call back, and the hook has released
\* it when it returns to the collaborator.
C33_LockNotAcrossCalls ==
    \A th \in Threads :
        /\ WritesProtected(th) => lk.owner = th
        /\ (Active(th) /\ Cur(th).op = "call") => lk.owner # th
        /\ (lk.in_call[th] # None /\ lk.owner = th)
           => (lk.hook[th] > 0 /\ lk.in_call[th] \in {"fetch", "transform"})
        /\ (lk.in_call[th] # None /\ lk.hook[th] = 0) => lk.owner # th

C33_Witness ==
    /\ lk.in_call[YT_A] = "fetch" /\ lk.hook[YT_A] > 0 /\ lk.owner = YT_A
    /\ WritesProtected(YT_A)
    /\ lk.in_call[YT_B] = "analyze" /\ lk.owner # YT_B


\* ---------------------------------------------------------- fair scheduling
\* A step of the run of u that moves it on: the pool hands it to a worker, a
\* collaborator call returns or raises, a block under the lock is executed.
\* A progress hook leaves the run where it is.
RunStep(u) == Worker(u) /\ pc'[u] # pc[u]

\* Workers and the monitor thread are scheduled fairly and every collaborator
\* call returns or raises; the caller is free to call or not.
Fairness ==
    /\ WF_vars(monitor_progress)
    /\ \A u \in AllUrls : WF_vars(RunStep(u))

\* a processor with a cache and a pool of one worker: the second Job waits
\* for the worker the first one holds
LiveInit == Init /\ cache_manager /\ concurrency = 1

LiveSpec == LiveInit /\ [][Next]_vars /\ Fairness

\* C31: once a batch has started, every Job reaches a terminal state, the
\* batch status becomes COMPLETED, FAILED or CANCELLED, also after a pause
\* that is never resumed, and the completion callback is invoked.
C31_BatchTerminates ==
    (monitor = "waiting")
    ~> (/\ monitor = "done"
        /\ \A u \in JobsOf : tasks[u].status \in Terminal
        /\ status \in {"COMPLETED", "FAILED", "CANCELLED"}
        /\ Len(completion) = 1)

C31_Witness ==
    /\ monitor = "done" /\ Len(completion) = 1
    /\ JobsOf = {YT_A, YT_B}
    /\ \A u \in JobsOf : tasks[u].status \in Terminal /\ pc[u] = "done"
    /\ status = "FAILED" /\ completion[1].status = "FAILED"

====
